---- MODULE Spec2Model ----
(***************************************************************************)
(* A model of the cost aggregation and metrics-reconciliation engine of    *)
(* cost-model: the vector merge (addVectors), the cost conversion          *)
(* (getPriceVectors), the aggregation engine (AggregateCostModel), the     *)
(* cached request handler (Accesses.AggregateCostModel) and the series     *)
(* reconciler (Accesses.recordPrices).                                     *)
(*                                                                         *)
(* float64 values are modelled by integers; the inputs are chosen so that  *)
(* every product and quotient the code forms on them is exact.             *)
(***************************************************************************)
EXTENDS Integers, Sequences, FiniteSets, TLC

VARIABLES
    \* ---- addVectors (one call) ----
    a,          \* the first Series as the caller holds it before the call
    b,          \* the second Series as the caller holds it before the call
    req,        \* the slice passed as req (its Vectors are snapped in place)
    used,       \* the slice passed as used (its Vectors are snapped in place)
    out,        \* the returned slice
    vpc,        \* "call" before the call, "returned" after it
    \* ---- costmodel.AggregateCostModel (one call) ----
    costData,           \* map[string]*CostData, as the records now stand
    costData0,          \* history: the records as they were passed to the call
    field,              \* parameter field
    subfield,           \* parameter subfield
    timeSeries,         \* parameter timeSeries
    discount,           \* parameter discount
    idleCoefficient,    \* parameter idleCoefficient
    sr,                 \* parameter sr (*SharedResourceInfo, may be nil)
    cp,                 \* parameter cp (cloud.Provider)
    aggregations,       \* local aggregations: group key -> Aggregation
    sharedResourceCost, \* local sharedResourceCost
    pending,            \* keys of costData the range loop has not visited
    apc,                \* "loop", "done" (returned) or "panic"
    \* ---- Accesses.recordPrices (the reconciler goroutine) ----
    nodeSeen,           \* map[string]bool of the nodes
    containerSeen,      \* map[string]bool of the containers
    pvSeen,             \* map[string]bool of the persistent volumes
    pvcSeen,            \* map[string]bool of the volume claims
    gauges,             \* GaugeVec name -> (label values -> value)
    networkGauges,      \* the three network egress gauges, nil until first set
    podStatus,          \* local podStatus of the cycle
    data,               \* local data of the cycle
    pvs,                \* the persistent volumes of the cache in this cycle
    unvisited,          \* keys of data the range loop has not visited
    rpc,                \* "start", "pass", "sleep" or "panic"
    observedBefore,     \* history: what the pass before this one observed
    fetchFailed,        \* history: ComputeCostData of this cycle returned an error
    refreshed,          \* history: what NetworkPricing returned to this cycle, and the
                        \* number of times this cycle has written the uptime gauges
    \* ---- Accesses.AggregateCostModel (the request handler) ----
    cache,              \* a.Cache: aggKey -> stored result
    request,            \* the request served last (none at first)
    responses,          \* what the handler wrote for it
    calls,              \* history: the calls the handler made after the cache lookup
    idleCall,           \* history: the ComputeIdleCoefficient call of the request, if any
    passedIdle,         \* history: the idleCoefficient passed to AggregateCostModel, if any
    \* ---- concurrent runs of Accesses.AggregateCostModel on the same a.Cache ----
    goroutines,         \* handler goroutine -> its position, request, result, response
    stored              \* history: the (key, value) pairs Set since the last Flush

vecVars == <<a, b, req, used, out, vpc>>

aggVars == <<costData, costData0, field, subfield, timeSeries, discount, idleCoefficient,
             sr, cp, aggregations, sharedResourceCost, pending, apc>>

reconVars == <<nodeSeen, containerSeen, pvSeen, pvcSeen, gauges, networkGauges,
               podStatus, data, pvs, unvisited, rpc, observedBefore, fetchFailed,
               refreshed>>

handlerVars == <<cache, request, responses, calls, idleCall, passedIdle>>

vars == <<a, b, req, used, out, vpc,
          costData, costData0, field, subfield, timeSeries, discount, idleCoefficient,
          sr, cp, aggregations, sharedResourceCost, pending, apc,
          nodeSeen, containerSeen, pvSeen, pvcSeen, gauges, networkGauges,
          podStatus, data, pvs, unvisited, rpc, observedBefore, fetchFailed, refreshed,
          cache, request, responses, calls, idleCall, passedIdle,
          goroutines, stored>>

\* what the actions of one component leave alone
concVars == <<goroutines, stored>>

otherThanVec == <<aggVars, reconVars, handlerVars, concVars>>
otherThanAgg == <<vecVars, reconVars, handlerVars, concVars>>
otherThanRecon == <<vecVars, aggVars, handlerVars, concVars>>
otherThanHandler == <<vecVars, aggVars, reconVars, concVars>>
otherThanConc == <<vecVars, aggVars, reconVars, request, responses, calls, idleCall, passedIdle>>

(***************************************************************************)
(* Bounds of the model.                                                    *)
(***************************************************************************)
\* longest input Series of a direct addVectors call
MaxLen == 2

\* sample instants: 0 (unsampled), 3 (snaps to 0), 11 and 12 (both snap to
\* 10), 20 (already on the grid)
Timestamps == {0, 3, 11, 12, 20}

\* sample values
Values == {1, 2}

\* most records in the costData of one AggregateCostModel call
MaxRecords == 3

\* most records in the data of one reconciler cycle
MaxCycleRecords == 2

\* handler goroutines that run at the same time
MaxHandlers == 2

(***************************************************************************)
(* Generic helpers on sequences.                                           *)
(***************************************************************************)
Range(s) == {s[i] : i \in 1..Len(s)}

\* the two float64 values that are not finite numbers: what a division by
\* zero gives (the finite values of the model are far below PosInf, and none
\* is negative)
PosInf == 1000000000
NaN == -1

\* float64 addition
Fadd(x, y) ==
    IF x = NaN \/ y = NaN THEN NaN
    ELSE IF x = PosInf \/ y = PosInf THEN PosInf
    ELSE x + y

RECURSIVE SumSeq(_)
SumSeq(s) == IF Len(s) = 0 THEN 0 ELSE Fadd(s[1], SumSeq(Tail(s)))

RECURSIVE InsertSorted(_, _)
InsertSorted(x, s) ==
    IF Len(s) = 0 THEN <<x>>
    ELSE IF x <= s[1] THEN <<x>> \o s
    ELSE <<s[1]>> \o InsertSorted(x, Tail(s))

\* sort.Float64s: ascending order, duplicates kept
RECURSIVE SortFloat64s(_)
SortFloat64s(s) ==
    IF Len(s) = 0 THEN <<>> ELSE InsertSorted(s[1], SortFloat64s(Tail(s)))

(***************************************************************************)
(* Vectors and the merge primitive.                                        *)
(***************************************************************************)
Vector(t, v) == [Timestamp |-> t, Value |-> v]

\* math.Round(t/10) * 10 for t >= 0 (halves round away from zero)
Round10(t) == ((t + 5) \div 10) * 10

\* the loop "if v.Timestamp == 0 { continue }; v.Timestamp = Round(...)":
\* what the Vectors of a slice hold after addVectors has walked over it
SnapInPlace(vs) ==
    [i \in 1..Len(vs) |->
        IF vs[i].Timestamp = 0 THEN vs[i]
        ELSE Vector(Round10(vs[i].Timestamp), vs[i].Value)]

\* the Vectors the merge path enters into its map: the ones whose Timestamp
\* is not 0 before snapping, snapped
KeptVectors(vs) == SnapInPlace(SelectSeq(vs, LAMBDA x : x.Timestamp # 0))

TimestampsOf(vs) == [i \in 1..Len(vs) |-> vs[i].Timestamp]

\* m[t] after "m[v.Timestamp] = v.Value" for every v in order: the last one wins
MapValue(vs, t) ==
    LET i == CHOOSE k \in 1..Len(vs) :
                 /\ vs[k].Timestamp = t
                 /\ \A j \in (k+1)..Len(vs) : vs[j].Timestamp # t
    IN vs[i].Value

\* the merge path of addVectors (both inputs non-empty)
MergeVectors(r, u) ==
    LET reqK  == KeptVectors(r)
        usedK == KeptVectors(u)
        reqTs == Range(TimestampsOf(reqK))
        usedTs == Range(TimestampsOf(usedK))
        timestamps ==
            SortFloat64s(TimestampsOf(reqK) \o
                         SelectSeq(TimestampsOf(usedK), LAMBDA t : t \notin reqTs))
        val(t) ==
            IF t \in reqTs /\ t \in usedTs THEN Fadd(MapValue(reqK, t), MapValue(usedK, t))
            ELSE IF t \in reqTs THEN MapValue(reqK, t)
            ELSE MapValue(usedK, t)
    IN [i \in 1..Len(timestamps) |-> Vector(timestamps[i], val(timestamps[i]))]

addVectors(r, u) ==
    IF Len(r) = 0 THEN SnapInPlace(u)
    ELSE IF Len(u) = 0 THEN SnapInPlace(r)
    ELSE MergeVectors(r, u)

totalVector(vs) == SumSeq([i \in 1..Len(vs) |-> vs[i].Value])

(***************************************************************************)
(* Cost records, pricing and shared-resource configuration.                *)
(*                                                                         *)
(* Money is held in hundredths: discount is a percentage and (1 - discount)*)
(* is OneMinus(discount) = 100 - discount.  RAM and storage allocations are*)
(* held in units of 2^20 bytes, so that the code's /1024/1024/1024 on      *)
(* bytes is one division by 1024 here.                                     *)
(***************************************************************************)
\* strconv.ParseFloat(s, 64) with the error dropped: 0 when s does not parse
ParseFloat(s) ==
    IF s = "12" THEN 12
    ELSE IF s = "24" THEN 24
    ELSE 0

OneMinus(disc) == 100 - disc

\* float64 division; the model's inputs make every finite quotient formed
\* exact; x / 0 is +Inf for x > 0 and NaN for x = 0
Fdiv(x, y) ==
    IF x = NaN THEN NaN
    ELSE IF y = 0 THEN (IF x = 0 THEN NaN ELSE PosInf)
    ELSE IF x = PosInf THEN PosInf
    ELSE x \div y

\* bytes / 1024 / 1024 / 1024 on a value held in units of 2^20 bytes
BytesToGiB(v) == v \div 1024

\* cloud.CustomPricesEnabled(cp)
CustomPricesEnabled(prov) == prov.CustomPricesEnabled

\* a nil pointer is the empty sequence, a non-nil one a sequence of length 1
Nil == <<>>
IsNil(p) == Len(p) = 0
Deref(p) == p[1]

NewSharedResourceInfo(shareResources, sharedNamespaces, labelnames, labelvalues) ==
    [ShareResources  |-> shareResources,
     SharedNamespace |-> Range(sharedNamespaces) \cup {"kube-system"},
     LabelSelectors  |->
        [n \in Range(labelnames) |->
            labelvalues[CHOOSE i \in 1..Len(labelnames) :
                            /\ labelnames[i] = n
                            /\ \A j \in (i+1)..Len(labelnames) : labelnames[j] # n]]]

\* mutant: the label selectors are never consulted
IsSharedResourceByNamespaceOnly(s, costDatum) ==
    costDatum.Namespace \in s.SharedNamespace

IsSharedResource(s, costDatum) ==
    \/ costDatum.Namespace \in s.SharedNamespace
    \/ \E labelName \in DOMAIN s.LabelSelectors :
          /\ labelName \in DOMAIN costDatum.Labels
          /\ costDatum.Labels[labelName] = s.LabelSelectors[labelName]

\* the condition of aggregations.go:111
GoesToSharedPool(shr, costDatum) ==
    /\ ~IsNil(shr)
    /\ Deref(shr).ShareResources
    /\ IsSharedResource(Deref(shr), costDatum)

(***************************************************************************)
(* Cost conversion.                                                        *)
(***************************************************************************)
\* one cost vector of getPriceVectors; inBytes tells the RAM and storage
\* formula (value / 1024 / 1024 / 1024) from the CPU and GPU one (value)
PriceVector(vs, inBytes, cost, disc, idle) ==
    [i \in 1..Len(vs) |->
        Vector(Round10(vs[i].Timestamp),
               Fdiv((IF inBytes THEN BytesToGiB(vs[i].Value) ELSE vs[i].Value)
                        * cost * OneMinus(disc) * 1,
                    idle))]

\* the unit prices getPriceVectors ends up with (aggregations.go:191-218)
UnitPrices(prov, node) ==
    LET custom == CustomPricesEnabled(prov) /\ ~prov.ConfigErr
        cfg    == prov.Config
    IN [cpuCost |-> ParseFloat(IF custom THEN (IF node.IsSpot THEN cfg.SpotCPU ELSE cfg.CPU)
                               ELSE node.VCPUCost),
        ramCost |-> ParseFloat(IF custom THEN (IF node.IsSpot THEN cfg.SpotRAM ELSE cfg.RAM)
                               ELSE node.RAMCost),
        gpuCost |-> ParseFloat(IF custom THEN (IF node.IsSpot THEN cfg.SpotGPU ELSE cfg.GPU)
                               ELSE node.GPUCost),
        pvCost  |-> ParseFloat(IF custom THEN cfg.Storage ELSE node.StorageCost)]

\* getPriceVectors dereferences costDatum.NodeData first (aggregations.go:191)
getPriceVectorsPanics(costDatum) == IsNil(costDatum.NodeData)

\* getPriceVectors on a record whose NodeData is not nil
getPriceVectors(prov, costDatum, disc, idle) ==
    LET p     == UnitPrices(prov, Deref(costDatum.NodeData))
        bound == SelectSeq(costDatum.PVCData, LAMBDA pvc : ~IsNil(pvc.Volume))
        pvv(pvc) ==
            PriceVector(pvc.Values, TRUE,
                        IF CustomPricesEnabled(prov) THEN p.pvCost
                        ELSE ParseFloat(Deref(pvc.Volume).Cost),
                        disc, idle)
    IN [cpuv |-> PriceVector(costDatum.CPUAllocation, FALSE, p.cpuCost, disc, idle),
        ramv |-> PriceVector(costDatum.RAMAllocation, TRUE, p.ramCost, disc, idle),
        gpuv |-> PriceVector(costDatum.GPUReq, FALSE, p.gpuCost, disc, idle),
        pvvs |-> [i \in 1..Len(bound) |-> pvv(bound[i])]]

\* totalVector(cpuv) + totalVector(ramv) + totalVector(gpuv) + every totalVector(pv)
RecordCost(prov, costDatum, disc, idle) ==
    LET v == getPriceVectors(prov, costDatum, disc, idle)
    IN Fadd(Fadd(Fadd(totalVector(v.cpuv), totalVector(v.ramv)), totalVector(v.gpuv)),
            SumSeq([i \in 1..Len(v.pvvs) |-> totalVector(v.pvvs[i])]))

(***************************************************************************)
(* The aggregation engine.                                                 *)
(***************************************************************************)
\* &Aggregation{} with the four fields aggregateDatum sets
NewAggregation(fld, sub, key, cluster) ==
    [Aggregator |-> fld, AggregatorSubField |-> sub, Environment |-> key,
     Cluster |-> cluster,
     CPUAllocation |-> <<>>, CPUCostVector |-> <<>>,
     RAMAllocation |-> <<>>, RAMCostVector |-> <<>>,
     PVCostVector  |-> <<>>,
     GPUAllocation |-> <<>>, GPUCostVector |-> <<>>,
     CPUCost |-> 0, RAMCost |-> 0, GPUCost |-> 0, PVCost |-> 0,
     NetworkCost |-> 0, SharedCost |-> 0, TotalCost |-> 0]

\* for _, vectorList := range pvvs { PVCostVector = addVectors(PVCostVector, vectorList) }
RECURSIVE AddPVVectors(_, _)
AddPVVectors(pvCostVector, pvvs) ==
    IF Len(pvvs) = 0 THEN pvCostVector
    ELSE AddPVVectors(addVectors(pvCostVector, pvvs[1]), Tail(pvvs))

mergeVectors(prov, costDatum, aggregation, disc, idle) ==
    LET v == getPriceVectors(prov, costDatum, disc, idle)
    IN [aggregation EXCEPT
          !.CPUAllocation = addVectors(costDatum.CPUAllocation, aggregation.CPUAllocation),
          !.RAMAllocation = addVectors(costDatum.RAMAllocation, aggregation.RAMAllocation),
          !.GPUAllocation = addVectors(costDatum.GPUReq, aggregation.GPUAllocation),
          !.CPUCostVector = addVectors(v.cpuv, aggregation.CPUCostVector),
          !.RAMCostVector = addVectors(v.ramv, aggregation.RAMCostVector),
          !.GPUCostVector = addVectors(v.gpuv, aggregation.GPUCostVector),
          !.PVCostVector  = AddPVVectors(aggregation.PVCostVector, v.pvvs)]

\* the record's allocation Series after mergeVectors has passed them to addVectors
SnappedDatum(costDatum) ==
    [costDatum EXCEPT
        !.CPUAllocation = SnapInPlace(costDatum.CPUAllocation),
        !.RAMAllocation = SnapInPlace(costDatum.RAMAllocation),
        !.GPUReq        = SnapInPlace(costDatum.GPUReq)]

aggregateDatum(prov, aggs, costDatum, fld, sub, key, disc, idle) ==
    LET base == IF key \in DOMAIN aggs THEN aggs
                ELSE aggs @@ (key :> NewAggregation(fld, sub, key, costDatum.ClusterID))
    IN [base EXCEPT ![key] = mergeVectors(prov, costDatum, base[key], disc, idle)]

\* mutant: the service and deployment groupings take the last entry, not the first
GroupKeyLastEntry(costDatum, fld, sub) ==
    IF fld = "cluster" THEN <<costDatum.ClusterID>>
    ELSE IF fld = "namespace" THEN <<costDatum.Namespace>>
    ELSE IF fld = "service" THEN
        (IF Len(costDatum.Services) > 0
         THEN <<costDatum.Services[Len(costDatum.Services)]>> ELSE <<>>)
    ELSE IF fld = "deployment" THEN
        (IF Len(costDatum.Deployments) > 0
         THEN <<costDatum.Deployments[Len(costDatum.Deployments)]>> ELSE <<>>)
    ELSE IF fld = "label" THEN
        (IF sub \in DOMAIN costDatum.Labels THEN <<costDatum.Labels[sub]>> ELSE <<>>)
    ELSE <<>>

\* the key the if/else chain of aggregations.go:120-138 passes to aggregateDatum:
\* <<key>>, or <<>> when the chain calls nothing
GroupKey(costDatum, fld, sub) ==
    IF fld = "cluster" THEN <<costDatum.ClusterID>>
    ELSE IF fld = "namespace" THEN <<costDatum.Namespace>>
    ELSE IF fld = "service" THEN
        (IF Len(costDatum.Services) > 0 THEN <<costDatum.Services[1]>> ELSE <<>>)
    ELSE IF fld = "deployment" THEN
        (IF Len(costDatum.Deployments) > 0 THEN <<costDatum.Deployments[1]>> ELSE <<>>)
    ELSE IF fld = "label" THEN
        (IF sub \in DOMAIN costDatum.Labels THEN <<costDatum.Labels[sub]>> ELSE <<>>)
    ELSE <<>>

\* mutant: every group is charged the whole pool instead of its N-th part
TotalsUnsplit(aggs, shared, keepSeries) ==
    [key \in DOMAIN aggs |->
        LET agg  == aggs[key]
            cpu  == totalVector(agg.CPUCostVector)
            ram  == totalVector(agg.RAMCostVector)
            gpu  == totalVector(agg.GPUCostVector)
            pv   == totalVector(agg.PVCostVector)
        IN [agg EXCEPT
              !.CPUCost = cpu, !.RAMCost = ram, !.GPUCost = gpu, !.PVCost = pv,
              !.SharedCost = shared,
              !.TotalCost = Fadd(Fadd(Fadd(Fadd(cpu, ram), gpu), pv), shared),
              !.CPUCostVector = IF keepSeries THEN @ ELSE <<>>,
              !.RAMCostVector = IF keepSeries THEN @ ELSE <<>>,
              !.PVCostVector  = IF keepSeries THEN @ ELSE <<>>,
              !.GPUCostVector = IF keepSeries THEN @ ELSE <<>>]]

\* the second loop of AggregateCostModel (aggregations.go:142-157)
Totals(aggs, shared, keepSeries) ==
    [key \in DOMAIN aggs |->
        LET agg  == aggs[key]
            cpu  == totalVector(agg.CPUCostVector)
            ram  == totalVector(agg.RAMCostVector)
            gpu  == totalVector(agg.GPUCostVector)
            pv   == totalVector(agg.PVCostVector)
            share == Fdiv(shared, Cardinality(DOMAIN aggs))
        IN [agg EXCEPT
              !.CPUCost = cpu, !.RAMCost = ram, !.GPUCost = gpu, !.PVCost = pv,
              !.SharedCost = share,
              !.TotalCost = Fadd(Fadd(Fadd(Fadd(cpu, ram), gpu), pv), share),
              !.CPUCostVector = IF keepSeries THEN @ ELSE <<>>,
              !.RAMCostVector = IF keepSeries THEN @ ELSE <<>>,
              !.PVCostVector  = IF keepSeries THEN @ ELSE <<>>,
              !.GPUCostVector = IF keepSeries THEN @ ELSE <<>>]]

(***************************************************************************)
(* Input Series: at most n samples at strictly increasing instants.        *)
(***************************************************************************)
SeriesUpTo(n) ==
    UNION {
        { s \in [1..k -> [Timestamp : Timestamps, Value : Values]] :
            \A i \in 1..(k-1) : s[i].Timestamp < s[i+1].Timestamp }
        : k \in 0..n }

(***************************************************************************)
(* SpecVec: one call of addVectors on a pair of Series, in either order.   *)
(***************************************************************************)
VecInit ==
    /\ a \in SeriesUpTo(MaxLen)
    /\ b \in SeriesUpTo(MaxLen)
    /\ req = <<>>
    /\ used = <<>>
    /\ out = <<>>
    /\ vpc = "call"

VecIdle ==
    /\ a = <<>>
    /\ b = <<>>
    /\ req = <<>>
    /\ used = <<>>
    /\ out = <<>>
    /\ vpc = "idle"

\* out := addVectors(a, b)
CallAddVectors ==
    /\ vpc = "call"
    /\ out' = addVectors(a, b)
    /\ req' = SnapInPlace(a)
    /\ used' = SnapInPlace(b)
    /\ vpc' = "returned"
    /\ UNCHANGED <<a, b>>
    /\ UNCHANGED otherThanVec

\* out := addVectors(b, a)
CallAddVectorsSwapped ==
    /\ vpc = "call"
    /\ out' = addVectors(b, a)
    /\ req' = SnapInPlace(b)
    /\ used' = SnapInPlace(a)
    /\ vpc' = "swapped"
    /\ UNCHANGED <<a, b>>
    /\ UNCHANGED otherThanVec

NextVec ==
    \/ CallAddVectors
    \/ CallAddVectorsSwapped

(***************************************************************************)
(* Inputs of AggregateCostModel.                                           *)
(***************************************************************************)
OnDemandNode ==
    [VCPUCost |-> "12", RAMCost |-> "12", GPUCost |-> "24", StorageCost |-> "12",
     IsSpot |-> FALSE]

\* a spot node whose RAM and storage prices do not parse
SpotNode ==
    [VCPUCost |-> "24", RAMCost |-> "", GPUCost |-> "12", StorageCost |-> "n/a",
     IsSpot |-> TRUE]

BoundClaim(claim, volume, cost, values) ==
    [Claim |-> claim, VolumeName |-> volume, Volume |-> <<[Cost |-> cost]>>,
     Values |-> values]

UnboundClaim(claim, values) ==
    [Claim |-> claim, VolumeName |-> "", Volume |-> Nil, Values |-> values]

NoLabels == [n \in {} |-> ""]

\* the cost records the inputs are drawn from
CostRecords == <<
    \* 1: a fully described container
    [ClusterID |-> "c1", Namespace |-> "ns1", PodName |-> "p1", Name |-> "ctr",
     NodeName |-> "n1", Services |-> <<"s1">>, Deployments |-> <<"d1">>,
     Labels |-> ("app" :> "x"), NodeData |-> <<OnDemandNode>>,
     CPUAllocation |-> <<Vector(11, 1), Vector(20, 2)>>,
     RAMAllocation |-> <<Vector(11, 1024)>>,
     GPUReq |-> <<>>, PVCData |-> <<>>],
    \* 2: same namespace, another cluster; no service, deployment or label;
    \*    an unsampled CPU point (timestamp 0) before a sampled one
    [ClusterID |-> "c2", Namespace |-> "ns1", PodName |-> "p2", Name |-> "ctr",
     NodeName |-> "n2", Services |-> <<>>, Deployments |-> <<>>,
     Labels |-> NoLabels, NodeData |-> <<OnDemandNode>>,
     CPUAllocation |-> <<Vector(0, 1), Vector(20, 1)>>,
     RAMAllocation |-> <<>>,
     GPUReq |-> <<Vector(20, 1)>>, PVCData |-> <<>>],
    \* 3: a kube-system container on a spot node, with a bound volume claim
    [ClusterID |-> "c1", Namespace |-> "kube-system", PodName |-> "p3", Name |-> "dns",
     NodeName |-> "n3", Services |-> <<"s2">>, Deployments |-> <<"d1">>,
     Labels |-> ("app" :> "y"), NodeData |-> <<SpotNode>>,
     CPUAllocation |-> <<Vector(11, 2)>>,
     RAMAllocation |-> <<Vector(11, 1024)>>,
     GPUReq |-> <<>>,
     PVCData |-> <<BoundClaim("claim3", "pv3", "12", <<Vector(11, 1024)>>)>>],
    \* 4: two CPU samples within one 10-second bucket; an unbound and a bound claim
    [ClusterID |-> "c1", Namespace |-> "ns2", PodName |-> "p4", Name |-> "ctr",
     NodeName |-> "n1", Services |-> <<"s1", "s2">>, Deployments |-> <<"d2">>,
     Labels |-> ("team" :> "t") @@ ("app" :> "x"), NodeData |-> <<OnDemandNode>>,
     CPUAllocation |-> <<Vector(11, 1), Vector(12, 2)>>,
     RAMAllocation |-> <<>>,
     GPUReq |-> <<>>,
     PVCData |-> <<UnboundClaim("claim4a", <<Vector(20, 1024)>>),
                   BoundClaim("claim4b", "pv4", "24", <<Vector(20, 1024)>>)>>],
    \* 5: a record whose node data is missing
    [ClusterID |-> "c1", Namespace |-> "ns2", PodName |-> "p5", Name |-> "ctr",
     NodeName |-> "n5", Services |-> <<"s2">>, Deployments |-> <<>>,
     Labels |-> ("team" :> "u"), NodeData |-> Nil,
     CPUAllocation |-> <<Vector(20, 1)>>,
     RAMAllocation |-> <<>>,
     GPUReq |-> <<>>, PVCData |-> <<>>],
    \* 6: a container of another namespace with plain, well-formed data
    [ClusterID |-> "c2", Namespace |-> "ns3", PodName |-> "p6", Name |-> "ctr",
     NodeName |-> "n2", Services |-> <<"s3">>, Deployments |-> <<"d3">>,
     Labels |-> ("app" :> "z"), NodeData |-> <<OnDemandNode>>,
     CPUAllocation |-> <<Vector(20, 2)>>,
     RAMAllocation |-> <<Vector(20, 1024)>>,
     GPUReq |-> <<>>, PVCData |-> <<>>]
>>

\* every costData of at most n records (the keys are 1..k; a map has no order,
\* so one representative per multiset of records)
CostDataUpTo(n) ==
    UNION {
        { [i \in 1..k |-> CostRecords[f[i]]] :
            f \in { g \in [1..k -> 1..Len(CostRecords)] :
                      \A i \in 1..(k-1) : g[i] <= g[i+1] } }
        : k \in 0..n }

Fields == {"cluster", "namespace", "service", "deployment", "label", "pod"}

CustomConfig ==
    [CPU |-> "24", RAM |-> "12", GPU |-> "12", Storage |-> "24",
     SpotCPU |-> "12", SpotRAM |-> "12", SpotGPU |-> "12"]

\* the provider: custom pricing off; on; on with GetConfig failing
Providers ==
    { [CustomPricesEnabled |-> FALSE, ConfigErr |-> FALSE, Config |-> CustomConfig],
      [CustomPricesEnabled |-> TRUE,  ConfigErr |-> FALSE, Config |-> CustomConfig],
      [CustomPricesEnabled |-> TRUE,  ConfigErr |-> TRUE,  Config |-> CustomConfig] }

\* (discount, idleCoefficient, provider, timeSeries) of a call
PricingCases ==
    { [discount |-> 0, idleCoefficient |-> 1, cp |-> prov,
       timeSeries |-> prov.CustomPricesEnabled] : prov \in Providers }
    \cup { [discount |-> 50, idleCoefficient |-> 2, timeSeries |-> TRUE,
            cp |-> [CustomPricesEnabled |-> FALSE, ConfigErr |-> FALSE,
                    Config |-> CustomConfig]] }

\* the sr argument: nil, or what NewSharedResourceInfo builds
SharedInfos ==
    { Nil,
      <<NewSharedResourceInfo(TRUE, <<>>, <<>>, <<>>)>>,
      <<NewSharedResourceInfo(TRUE, <<"ns2">>, <<>>, <<>>)>>,
      <<NewSharedResourceInfo(TRUE, <<>>, <<"team">>, <<"t">>)>>,
      <<NewSharedResourceInfo(FALSE, <<"ns1">>, <<"app">>, <<"x">>)>> }

(***************************************************************************)
(* SpecAgg: one call of AggregateCostModel; the range loop visits the      *)
(* records of costData in any order.                                       *)
(***************************************************************************)
AggInit ==
    /\ costData \in CostDataUpTo(MaxRecords)
    /\ costData0 = costData
    /\ field \in Fields
    /\ subfield = (IF field = "label" THEN "app" ELSE "")
    /\ \E pc \in PricingCases :
          /\ timeSeries = pc.timeSeries
          /\ discount = pc.discount
          /\ idleCoefficient = pc.idleCoefficient
          /\ cp = pc.cp
    /\ sr \in SharedInfos
    /\ aggregations = <<>>
    /\ sharedResourceCost = 0
    /\ pending = DOMAIN costData
    /\ apc = "loop"

AggIdle ==
    /\ costData = <<>>
    /\ costData0 = <<>>
    /\ field = ""
    /\ subfield = ""
    /\ timeSeries = FALSE
    /\ discount = 0
    /\ idleCoefficient = 1
    /\ cp = [CustomPricesEnabled |-> FALSE, ConfigErr |-> FALSE, Config |-> CustomConfig]
    /\ sr = Nil
    /\ aggregations = <<>>
    /\ sharedResourceCost = 0
    /\ pending = {}
    /\ apc = "idle"

aggParams == <<costData0, field, subfield, timeSeries, discount, idleCoefficient, sr, cp>>

\* aggregations.go:111-118: the record's cost goes to the shared pool
VisitShared(k) ==
    /\ apc = "loop"
    /\ k \in pending
    /\ GoesToSharedPool(sr, costData[k])
    /\ ~getPriceVectorsPanics(costData[k])
    /\ sharedResourceCost' =
         Fadd(sharedResourceCost, RecordCost(cp, costData[k], discount, idleCoefficient))
    /\ pending' = pending \ {k}
    /\ UNCHANGED <<costData, aggregations, apc>>
    /\ UNCHANGED aggParams
    /\ UNCHANGED otherThanAgg

\* aggregations.go:120-138 with a key resolved: aggregateDatum
VisitGrouped(k) ==
    /\ apc = "loop"
    /\ k \in pending
    /\ ~GoesToSharedPool(sr, costData[k])
    /\ Len(GroupKey(costData[k], field, subfield)) > 0
    /\ ~getPriceVectorsPanics(costData[k])
    /\ aggregations' =
         aggregateDatum(cp, aggregations, costData[k], field, subfield,
                        GroupKey(costData[k], field, subfield)[1],
                        discount, idleCoefficient)
    /\ costData' = [costData EXCEPT ![k] = SnappedDatum(@)]
    /\ pending' = pending \ {k}
    /\ UNCHANGED <<sharedResourceCost, apc>>
    /\ UNCHANGED aggParams
    /\ UNCHANGED otherThanAgg

\* aggregations.go:120-138 with no key resolved: nothing is called
VisitSkipped(k) ==
    /\ apc = "loop"
    /\ k \in pending
    /\ ~GoesToSharedPool(sr, costData[k])
    /\ Len(GroupKey(costData[k], field, subfield)) = 0
    /\ pending' = pending \ {k}
    /\ UNCHANGED <<costData, aggregations, sharedResourceCost, apc>>
    /\ UNCHANGED aggParams
    /\ UNCHANGED otherThanAgg

\* getPriceVectors is reached (aggregations.go:112 or :181) with NodeData nil:
\* the dereference at aggregations.go:191 panics and the call never returns
VisitPanics(k) ==
    /\ apc = "loop"
    /\ k \in pending
    /\ getPriceVectorsPanics(costData[k])
    /\ \/ GoesToSharedPool(sr, costData[k])
       \/ Len(GroupKey(costData[k], field, subfield)) > 0
    /\ apc' = "panic"
    /\ pending' = pending \ {k}
    /\ UNCHANGED <<costData, aggregations, sharedResourceCost>>
    /\ UNCHANGED aggParams
    /\ UNCHANGED otherThanAgg

\* aggregations.go:142-159: totals, shared split, return
ReturnAggregations ==
    /\ apc = "loop"
    /\ pending = {}
    /\ aggregations' = Totals(aggregations, sharedResourceCost, timeSeries)
    /\ apc' = "done"
    /\ UNCHANGED <<costData, sharedResourceCost, pending>>
    /\ UNCHANGED aggParams
    /\ UNCHANGED otherThanAgg

NextAgg ==
    \/ \E k \in DOMAIN costData : VisitShared(k)
    \/ \E k \in DOMAIN costData : VisitGrouped(k)
    \/ \E k \in DOMAIN costData : VisitSkipped(k)
    \/ \E k \in DOMAIN costData : VisitPanics(k)
    \/ ReturnAggregations

(***************************************************************************)
(* The series reconciler: Accesses.recordPrices.                           *)
(***************************************************************************)
\* an empty Go map
EmptyMap == [k \in {} |-> FALSE]

\* a string that holds label values is a sequence of tokens: a label value
\* is one token ("" is no token) and "," is the separator.
\* strings.Join(labels, ",")
RECURSIVE getKeyFromLabelStrings(_)
getKeyFromLabelStrings(labels) ==
    IF Len(labels) = 0 THEN <<>>
    ELSE (IF labels[1] = "" THEN <<>> ELSE <<labels[1]>>)
           \o (IF Len(labels) > 1
               THEN <<",">> \o getKeyFromLabelStrings(Tail(labels))
               ELSE <<>>)

\* strings.Split(key, ","): the pieces between the separators, "" for an
\* empty piece; the empty string splits into one empty piece
RECURSIVE getLabelStringsFromKey(_)
getLabelStringsFromKey(key) ==
    IF Len(key) = 0 THEN <<"">>
    ELSE IF key[1] = "," THEN <<"">> \o getLabelStringsFromKey(Tail(key))
    ELSE IF Len(key) = 1 THEN <<key[1]>>
    ELSE <<key[1]>> \o getLabelStringsFromKey(SubSeq(key, 3, Len(key)))

\* the label names each GaugeVec is registered with (part_000:836-883)
GaugeLabels ==
    [CPUPriceRecorder              |-> <<"instance", "node">>,
     RAMPriceRecorder              |-> <<"instance", "node">>,
     GPUPriceRecorder              |-> <<"instance", "node">>,
     NodeTotalPriceRecorder        |-> <<"instance", "node">>,
     PersistentVolumePriceRecorder |-> <<"volumename", "persistentvolume">>,
     RAMAllocationRecorder         |-> <<"namespace", "pod", "container", "instance", "node">>,
     CPUAllocationRecorder         |-> <<"namespace", "pod", "container", "instance", "node">>,
     GPUAllocationRecorder         |-> <<"namespace", "pod", "container", "instance", "node">>,
     PVAllocationRecorder          |-> <<"namespace", "pod", "persistentvolumeclaim", "persistentvolume">>,
     ContainerUptimeRecorder       |-> <<"namespace", "pod", "container">>]

\* GaugeVec.WithLabelValues(lvs...).Set(v), the label count matching
WithLabelValuesSet(gs, name, lvs, v) ==
    [gs EXCEPT ![name] = (lvs :> v) @@ @]

\* GaugeVec.DeleteLabelValues(lvs...) for every key of keys: a call whose
\* label count differs from the gauge's deletes nothing and returns false
DeleteLabelValues(gs, name, keys) ==
    LET gone == {getLabelStringsFromKey(key) : key \in
                    {k \in keys : Len(getLabelStringsFromKey(k)) = Len(GaugeLabels[name])}}
    IN [gs EXCEPT ![name] = [lvs \in DOMAIN @ \ gone |-> @[lvs]]]

\* mutant: a sweep loop that finds no key unseen
NoneUnseen(seen) == {}

\* the keys a sweep loop finds with seen = false (part_000:739, 750, 761, 769)
Unseen(seen) == {key \in DOMAIN seen : ~seen[key]}

\* mutant: a sweep loop that keeps the flags as the data pass left them
KeepFlags(seen) == seen

\* a sweep loop on its map: a key found unseen is deleted and set again to
\* false, a key found seen is set to false (part_000:745-747 and alike)
ResetFlags(seen) == [key \in DOMAIN seen |-> FALSE]

\* podStatus[podName], "" when the map has no such pod
PhaseOf(status, podName) ==
    IF podName \in DOMAIN status THEN status[podName] ELSE ""

\* a node as the reconciler reads it
ReconNode ==
    [VCPUCost |-> "12", VCPU |-> "2", RAMCost |-> "12", RAMBytes |-> "1024",
     GPU |-> "", GPUCost |-> "24"]

\* the strings the reconciler parses
ParseNumber(s) ==
    IF s = "2" THEN 2
    ELSE IF s = "1024" THEN 1024
    ELSE ParseFloat(s)

\* the cost records one ComputeCostData call can return
ReconRecords == <<
    \* 1: a container with allocations and a bound volume claim
    [NodeName |-> "n1", Namespace |-> "ns1", PodName |-> "p1", Name |-> "ctr",
     NodeData |-> <<ReconNode>>,
     RAMAllocation |-> <<Vector(20, 1024)>>, CPUAllocation |-> <<Vector(20, 1)>>,
     GPUReq |-> <<>>,
     PVCData |-> <<BoundClaim("claim1", "pv1", "12", <<Vector(20, 5)>>)>>],
    \* 2: a container on another node, no CPU or RAM sample, an unbound claim
    [NodeName |-> "n2", Namespace |-> "ns1", PodName |-> "p2", Name |-> "ctr",
     NodeData |-> <<ReconNode>>,
     RAMAllocation |-> <<>>, CPUAllocation |-> <<>>,
     GPUReq |-> <<Vector(20, 1)>>,
     PVCData |-> <<UnboundClaim("claim2", <<>>)>>],
    \* 3: a record whose node data is missing
    [NodeName |-> "n3", Namespace |-> "ns2", PodName |-> "p3", Name |-> "ctr",
     NodeData |-> Nil,
     RAMAllocation |-> <<Vector(20, 1024)>>, CPUAllocation |-> <<>>,
     GPUReq |-> <<>>,
     PVCData |-> <<BoundClaim("claim3", "pv3", "12", <<Vector(20, 5)>>)>>],
    \* 4: a bound volume claim that has no sample
    [NodeName |-> "n2", Namespace |-> "ns2", PodName |-> "p4", Name |-> "ctr",
     NodeData |-> <<ReconNode>>,
     RAMAllocation |-> <<>>, CPUAllocation |-> <<Vector(20, 1)>>,
     GPUReq |-> <<>>,
     PVCData |-> <<BoundClaim("claim4", "pv4", "12", <<>>)>>]
>>

\* what ComputeCostData returns: an error, or at most MaxCycleRecords records
ComputeCostDataResults ==
    {[err |-> TRUE, data |-> EmptyMap]}
    \cup {[err |-> FALSE, data |-> [k \in S |-> ReconRecords[k]]] :
            S \in {T \in SUBSET (1..Len(ReconRecords)) : Cardinality(T) <= MaxCycleRecords}}

\* what Cache.GetAllPods gives: pod name -> phase
PodLists ==
    { EmptyMap,
      ("p1" :> "Running"),
      ("p1" :> "Running") @@ ("p2" :> "Running") @@ ("p4" :> "Running"),
      ("p1" :> "Pending") @@ ("p2" :> "Running") }

\* what Cache.GetAllPersistentVolumes gives, each volume with the cost
\* GetPVCost resolves for it
PersistentVolumeLists == { {}, {[Name |-> "pv1", Cost |-> "12"]} }

\* what Cloud.NetworkPricing returns
NetworkPricingResults ==
    { [err |-> TRUE,  costs |-> Nil],
      [err |-> FALSE, costs |-> <<[ZoneNetworkEgressCost |-> 1,
                                   RegionNetworkEgressCost |-> 1,
                                   InternetNetworkEgressCost |-> 2]>>] }

\* what ComputeUptimes returns: container -> uptime (nil on error)
ComputeUptimesResults ==
    { EmptyMap, (<<"ns1", "p1", "ctr">> :> 1) }

\* the records of a pass that get past the node check (part_000:653-656)
WithNodeData(d) == {k \in DOMAIN d : ~IsNil(d[k].NodeData)}

\* the volume claims of a record that are bound (part_000:672)
BoundClaims(costs) ==
    {costs.PVCData[i] : i \in {j \in 1..Len(costs.PVCData) : ~IsNil(costs.PVCData[j].Volume)}}

\* the entities a complete data pass observes, by their label values
Observed(status, d, vols) ==
    [node      |-> {<<d[k].NodeName, d[k].NodeName>> : k \in WithNodeData(d)},
     container |-> {<<d[k].Namespace, d[k].PodName, d[k].Name, d[k].NodeName, d[k].NodeName>> :
                      k \in {j \in WithNodeData(d) : PhaseOf(status, d[j].PodName) = "Running"}},
     pv        |-> IF WithNodeData(d) = {} THEN {} ELSE {<<v.Name, v.Name>> : v \in vols},
     pvc       |-> UNION {{<<d[k].Namespace, d[k].PodName, c.Claim, c.VolumeName>> :
                              c \in BoundClaims(d[k])} : k \in WithNodeData(d)}]

NoneObserved == [node |-> {}, container |-> {}, pv |-> {}, pvc |-> {}]

\* part_000:670-678: one gauge write and one mark per bound claim
RECURSIVE RecordClaims(_, _, _)
RecordClaims(st, costs, i) ==
    IF i > Len(costs.PVCData) THEN st
    ELSE LET pvc == costs.PVCData[i]
             lvs == <<costs.Namespace, costs.PodName, pvc.Claim, pvc.VolumeName>>
         IN IF IsNil(pvc.Volume) THEN RecordClaims(st, costs, i + 1)
            ELSE RecordClaims(
                   [gauges |-> WithLabelValuesSet(st.gauges, "PVAllocationRecorder", lvs,
                                                  pvc.Values[1].Value),
                    pvcSeen |-> (getKeyFromLabelStrings(lvs) :> TRUE) @@ st.pvcSeen],
                   costs, i + 1)

\* part_000:657-664 and 680-683: the four node price gauges
RecordNode(gs, costs) ==
    LET nd        == Deref(costs.NodeData)
        cpuCost   == ParseNumber(nd.VCPUCost)
        cpu       == ParseNumber(nd.VCPU)
        ramCost   == ParseNumber(nd.RAMCost)
        ram       == ParseNumber(nd.RAMBytes)
        gpu       == ParseNumber(nd.GPU)
        gpuCost   == ParseNumber(nd.GPUCost)
        totalCost == cpu * cpuCost + ramCost * BytesToGiB(ram) + gpu * gpuCost
        lvs       == <<costs.NodeName, costs.NodeName>>
    IN WithLabelValuesSet(
         WithLabelValuesSet(
           WithLabelValuesSet(
             WithLabelValuesSet(gs, "CPUPriceRecorder", lvs, cpuCost),
             "RAMPriceRecorder", lvs, ramCost),
           "GPUPriceRecorder", lvs, gpuCost),
         "NodeTotalPriceRecorder", lvs, totalCost)

\* part_000:687-696: an allocation gauge is written when the Series has a sample
RecordAllocation(gs, name, costs, vs) ==
    IF Len(vs) > 0
    THEN WithLabelValuesSet(gs, name,
            <<costs.Namespace, costs.PodName, costs.Name, costs.NodeName, costs.NodeName>>,
            vs[1].Value)
    ELSE gs

\* part_000:715-731: every cached volume gets its price gauge and its mark
RECURSIVE RecordVolumes(_, _)
RecordVolumes(st, vols) ==
    IF vols = {} THEN st
    ELSE LET pv  == CHOOSE v \in vols : TRUE
             lvs == <<pv.Name, pv.Name>>
         IN RecordVolumes(
              [gauges |-> WithLabelValuesSet(st.gauges, "PersistentVolumePriceRecorder", lvs,
                                             ParseNumber(pv.Cost)),
               pvSeen |-> (getKeyFromLabelStrings(lvs) :> TRUE) @@ st.pvSeen],
              vols \ {pv})

\* part_000:732-736: one uptime gauge per container of the uptime map
RECURSIVE RecordUptimes(_, _, _)
RecordUptimes(gs, uptimes, todo) ==
    IF todo = {} THEN gs
    ELSE LET c == CHOOSE x \in todo : TRUE
         IN RecordUptimes(WithLabelValuesSet(gs, "ContainerUptimeRecorder", c, uptimes[c]),
                          uptimes, todo \ {c})

\* pvc.Values[0] of a bound claim without a sample is out of range (part_000:673)
RecordPanics(costs) == \E c \in BoundClaims(costs) : Len(c.Values) = 0

\* the goroutine starts with four empty maps; no series has been written
ReconInit ==
    /\ nodeSeen = EmptyMap
    /\ containerSeen = EmptyMap
    /\ pvSeen = EmptyMap
    /\ pvcSeen = EmptyMap
    /\ gauges = [name \in DOMAIN GaugeLabels |-> EmptyMap]
    /\ networkGauges = Nil
    /\ podStatus = EmptyMap
    /\ data = EmptyMap
    /\ pvs = {}
    /\ unvisited = {}
    /\ rpc = "start"
    /\ observedBefore = NoneObserved
    /\ fetchFailed = FALSE
    /\ refreshed = [network |-> Nil, uptimes |-> 0]

ReconIdle == ReconInit

\* part_000:626-648: pod phases, network gauges, the cost data of the cycle.
\* The volume list of the cache is taken once for the pass.
StartCycle ==
    /\ rpc \in {"start", "sleep"}
    /\ \E pods \in PodLists, net \in NetworkPricingResults,
          fetched \in ComputeCostDataResults, vols \in PersistentVolumeLists :
          /\ podStatus' = pods
          /\ networkGauges' = IF net.err THEN networkGauges ELSE net.costs
          /\ data' = IF fetched.err THEN EmptyMap ELSE fetched.data
          /\ fetchFailed' = fetched.err
          /\ refreshed' = [network |-> <<net>>, uptimes |-> 0]
          /\ pvs' = vols
          /\ unvisited' = DOMAIN data'
    /\ observedBefore' = IF rpc = "sleep" THEN Observed(podStatus, data, pvs)
                         ELSE NoneObserved
    /\ rpc' = "pass"
    /\ UNCHANGED <<nodeSeen, containerSeen, pvSeen, pvcSeen, gauges>>
    /\ UNCHANGED otherThanRecon

\* part_000:653-656: a record without node data is skipped
SkipRecord(k) ==
    /\ rpc = "pass"
    /\ k \in unvisited
    /\ IsNil(data[k].NodeData)
    /\ unvisited' = unvisited \ {k}
    /\ UNCHANGED <<nodeSeen, containerSeen, pvSeen, pvcSeen, gauges, networkGauges,
                   podStatus, data, pvs, rpc, observedBefore, fetchFailed, refreshed>>
    /\ UNCHANGED otherThanRecon

\* part_000:673: the index expression panics; the goroutine and with it the
\* process end
RecordPricesPanics(k) ==
    /\ rpc = "pass"
    /\ k \in unvisited
    /\ ~IsNil(data[k].NodeData)
    /\ RecordPanics(data[k])
    /\ rpc' = "panic"
    /\ unvisited' = unvisited \ {k}
    /\ UNCHANGED <<nodeSeen, containerSeen, pvSeen, pvcSeen, gauges, networkGauges,
                   podStatus, data, pvs, observedBefore, fetchFailed, refreshed>>
    /\ UNCHANGED otherThanRecon

\* part_000:657-736: one iteration of the data pass
RecordCosts(k) ==
    /\ rpc = "pass"
    /\ k \in unvisited
    /\ ~IsNil(data[k].NodeData)
    /\ ~RecordPanics(data[k])
    /\ \E uptimes \in ComputeUptimesResults :
         LET costs  == data[k]
             claims == RecordClaims([gauges |-> gauges, pvcSeen |-> pvcSeen], costs, 1)
             g1     == RecordNode(claims.gauges, costs)
             g2     == RecordAllocation(g1, "RAMAllocationRecorder", costs, costs.RAMAllocation)
             g3     == RecordAllocation(g2, "CPUAllocationRecorder", costs, costs.CPUAllocation)
             g4     == RecordAllocation(g3, "GPUAllocationRecorder", costs, costs.GPUReq)
             vols   == RecordVolumes([gauges |-> g4, pvSeen |-> pvSeen], pvs)
             nodeKey == getKeyFromLabelStrings(<<costs.NodeName, costs.NodeName>>)
             ctrKey  == getKeyFromLabelStrings(<<costs.Namespace, costs.PodName, costs.Name,
                                                 costs.NodeName, costs.NodeName>>)
         IN /\ pvcSeen' = claims.pvcSeen
            /\ nodeSeen' = (nodeKey :> TRUE) @@ nodeSeen
            /\ containerSeen' =
                 (ctrKey :> (PhaseOf(podStatus, costs.PodName) = "Running")) @@ containerSeen
            /\ pvSeen' = vols.pvSeen
            /\ gauges' = RecordUptimes(vols.gauges, uptimes, DOMAIN uptimes)
    /\ unvisited' = unvisited \ {k}
    /\ refreshed' = [refreshed EXCEPT !.uptimes = @ + 1]
    /\ UNCHANGED <<networkGauges, podStatus, data, pvs, rpc, observedBefore, fetchFailed>>
    /\ UNCHANGED otherThanRecon

\* part_000:738-776: the four sweep loops, then the sleep.  A key deleted and
\* set again within its loop may be met by the loop once more; it is then
\* found unseen again and the same calls repeat, to the same effect.
Sweep ==
    /\ rpc = "pass"
    /\ unvisited = {}
    /\ gauges' =
         DeleteLabelValues(
          DeleteLabelValues(
           DeleteLabelValues(
            DeleteLabelValues(
             DeleteLabelValues(
              DeleteLabelValues(
               DeleteLabelValues(
                DeleteLabelValues(
                 DeleteLabelValues(
                  DeleteLabelValues(gauges,
                   "NodeTotalPriceRecorder", Unseen(nodeSeen)),
                  "CPUPriceRecorder", Unseen(nodeSeen)),
                 "GPUPriceRecorder", Unseen(nodeSeen)),
                "RAMPriceRecorder", Unseen(nodeSeen)),
               "RAMAllocationRecorder", Unseen(containerSeen)),
              "CPUAllocationRecorder", Unseen(containerSeen)),
             "GPUAllocationRecorder", Unseen(containerSeen)),
            "ContainerUptimeRecorder", Unseen(containerSeen)),
           "PersistentVolumePriceRecorder", Unseen(pvSeen)),
          "PVAllocationRecorder", Unseen(pvcSeen))
    /\ nodeSeen' = ResetFlags(nodeSeen)
    /\ containerSeen' = ResetFlags(containerSeen)
    /\ pvSeen' = ResetFlags(pvSeen)
    /\ pvcSeen' = ResetFlags(pvcSeen)
    /\ rpc' = "sleep"
    /\ UNCHANGED <<networkGauges, podStatus, data, pvs, unvisited, observedBefore,
                   fetchFailed, refreshed>>
    /\ UNCHANGED otherThanRecon

Next ==
    \/ StartCycle
    \/ \E k \in DOMAIN data : SkipRecord(k)
    \/ \E k \in DOMAIN data : RecordPricesPanics(k)
    \/ \E k \in DOMAIN data : RecordCosts(k)
    \/ Sweep

(***************************************************************************)
(* The cached request handler: Accesses.AggregateCostModel.                *)
(***************************************************************************)
\* the query parameters of a request (part_000:250-272); the three list
\* parameters are strings of label values, as the reconciler's keys are
Requests ==
    {rq \in [window : {"1h"}, offset : {""}, namespace : {""}, cluster : {""},
             field : {"", "namespace", "label"},
             subfield : {"", "team"},
             allocateIdle : {"", "true"},
             sharedNamespaces : {<<>>, <<"ns2">>},
             sharedLabelNames : {<<>>, <<"team">>, <<"team", ",", "app">>},
             sharedLabelValues : {<<>>, <<"t">>},
             remote : {""},
             timeSeries : {FALSE},
             disableCache : BOOLEAN,
             clearCache : BOOLEAN] :
        /\ rq.field = "label" \/ rq.subfield = ""
        /\ rq.sharedLabelNames = <<>> => rq.sharedLabelValues = <<>>
        /\ Len(rq.sharedLabelNames) > 1 => rq.sharedLabelValues = <<"t">>
        /\ rq.sharedNamespaces # <<>> => rq.sharedLabelNames = <<>>
        /\ rq.clearCache => ~rq.disableCache
        /\ rq.field # "namespace"
             => /\ rq.sharedNamespaces = <<>> /\ rq.sharedLabelNames = <<>>
                /\ ~rq.disableCache /\ ~rq.clearCache
        /\ rq.field = "" \/ (rq.field = "label" /\ rq.subfield = "")
             => rq.allocateIdle = ""}

\* the value request holds before any request has been served
NoRequest == <<>>

\* part_000:275-286: the aggregation field, and the subfield of a label grouping
MissingField(rq) ==
    \/ rq.field = ""
    \/ rq.field = "label" /\ rq.subfield = ""

\* normalizeTimeParam on the windows of the model (part_000:73-86)
normalizeTimeParam(param) ==
    IF param = "1d" THEN "24h" ELSE param

\* time.ParseDuration(window).Hours()
Hours(window) ==
    IF window = "24h" THEN 24 ELSE 1

\* fmt.Sprintf("aggregate:%s:%s:%s:%s:%s:%s:%t", ...) (part_000:328): the
\* seven values it formats, in their places
aggKey(rq) ==
    <<"aggregate", normalizeTimeParam(rq.window), rq.offset, rq.namespace, rq.cluster,
      rq.field, rq.subfield, IF rq.timeSeries THEN "true" ELSE "false">>

\* a.Cache as the request finds it after part_000:324-326
Flushed(c, rq) == IF rq.clearCache THEN EmptyMap ELSE c

\* part_000:331: found && !disableCache
CacheHit(c, rq) ==
    /\ aggKey(rq) \in DOMAIN Flushed(c, rq)
    /\ ~rq.disableCache

\* the records ComputeCostDataRange returns (one cluster, three namespaces)
RangeData == (1 :> CostRecords[1]) @@ (2 :> CostRecords[3]) @@ (3 :> CostRecords[4])

\* a.Cloud of the handler and the configuration GetConfig returns
HandlerProvider ==
    [CustomPricesEnabled |-> FALSE, ConfigErr |-> FALSE, Config |-> CustomConfig]

HandlerConfig == [Discount |-> "50%"]

\* strconv.ParseFloat(c.Discount[:len(c.Discount)-1], 64) * 0.01, in percent
ParseDiscount(s) ==
    IF s = "50%" THEN 50 ELSE 0

\* what ClusterCosts returns: an error, or totals whose TotalCost holds no
\* sample, a zero total, a total that does not parse, or a total
ClusterCostsResults ==
    { [err |-> TRUE,  TotalCost |-> <<>>],
      [err |-> FALSE, TotalCost |-> <<>>],
      [err |-> FALSE, TotalCost |-> << <<"1572566400", "0">> >>],
      [err |-> FALSE, TotalCost |-> << <<"1572566400", "">> >>],
      [err |-> FALSE, TotalCost |-> << <<"1572566400", "61320">> >>] }

\* strconv.ParseFloat on totals.TotalCost[0][1]: the value and whether it failed
ParseTotal(s) ==
    IF s = "61320" THEN [value |-> 61320, err |-> FALSE]
    ELSE IF s = "0" THEN [value |-> 0, err |-> FALSE]
    ELSE [value |-> 0, err |-> TRUE]

\* ComputeIdleCoefficient (aggregations.go:71-97), totals being what ClusterCosts
\* returns: the float64 and the error it returns, or the panic of the index
\* expression totals.TotalCost[0][1] on an empty TotalCost
ComputeIdleCoefficient(cd, prov, disc, totals, hours) ==
    IF totals.err THEN [value |-> 0, err |-> TRUE, panics |-> FALSE]
    ELSE IF Len(totals.TotalCost) = 0 THEN [value |-> 0, err |-> FALSE, panics |-> TRUE]
    ELSE
      LET parsed == ParseTotal(totals.TotalCost[1][2])
          totalClusterCost == parsed.value
          totalClusterCostOverWindow == Fdiv(totalClusterCost, 730) * hours * OneMinus(disc)
          totalContainerCost ==
              SumSeq([k \in 1..Cardinality(DOMAIN cd) |-> RecordCost(prov, cd[k], disc, 1)])
      IN IF parsed.err \/ totalClusterCost = 0
         THEN [value |-> 0, err |-> parsed.err, panics |-> FALSE]
         ELSE [value |-> Fdiv(totalContainerCost, totalClusterCostOverWindow),
               err |-> FALSE, panics |-> FALSE]

\* the ClusterCosts results a request can meet: none when idle is not asked for
NoTotals == [err |-> FALSE, TotalCost |-> <<>>]

IdleInputs(rq) ==
    IF rq.allocateIdle = "true" THEN ClusterCostsResults ELSE {NoTotals}

\* ComputeIdleCoefficient on the data, provider and discount of the handler,
\* tabulated over what ClusterCosts returns (the window is of one hour)
IdleTable ==
    [totals \in ClusterCostsResults |->
        ComputeIdleCoefficient(RangeData, HandlerProvider,
                               ParseDiscount(HandlerConfig.Discount), totals,
                               Hours(normalizeTimeParam("1h")))]

\* part_000:361-367: idleCoefficient after the if, with the error and panic
\* of the call; the assignment at :363 overwrites the 1.0 also when the call
\* returns an error
IdleCoefficientOf(rq, totals) ==
    IF rq.allocateIdle = "true"
    THEN IdleTable[totals]
    ELSE [value |-> 1, err |-> FALSE, panics |-> FALSE]

\* part_000:369-377: the three lists
SharedNamespacesOf(rq) ==
    IF rq.sharedNamespaces # <<>> THEN getLabelStringsFromKey(rq.sharedNamespaces) ELSE <<>>

SharedLabelNamesOf(rq) ==
    IF rq.sharedLabelNames # <<>> THEN getLabelStringsFromKey(rq.sharedLabelNames) ELSE <<>>

SharedLabelValuesOf(rq) ==
    IF rq.sharedLabelNames # <<>> THEN getLabelStringsFromKey(rq.sharedLabelValues) ELSE <<>>

\* part_000:378
LabelCountMismatch(rq) ==
    /\ rq.sharedLabelNames # <<>>
    /\ \/ Len(SharedLabelNamesOf(rq)) # Len(SharedLabelValuesOf(rq))
       \/ SharedLabelValuesOf(rq)[1] = ""

\* part_000:383-386
SharedResourceInfoOf(rq) ==
    IF Len(SharedNamespacesOf(rq)) > 0 \/ Len(SharedLabelNamesOf(rq)) > 0
    THEN <<NewSharedResourceInfo(TRUE, SharedNamespacesOf(rq), SharedLabelNamesOf(rq),
                                 SharedLabelValuesOf(rq))>>
    ELSE Nil

\* the first loop of costmodel.AggregateCostModel over the keys todo; the
\* records of RangeData are of one cluster, so the order of the visits does
\* not show in the result
RECURSIVE RangeLoop(_, _, _, _)
RangeLoop(cd, todo, p, acc) ==
    IF todo = {} THEN acc
    ELSE LET k  == CHOOSE x \in todo : \A y \in todo : x <= y
             gk == GroupKey(cd[k], p.field, p.subfield)
         IN RangeLoop(cd, todo \ {k}, p,
               IF GoesToSharedPool(p.sr, cd[k])
               THEN [acc EXCEPT !.sharedResourceCost =
                        Fadd(@, RecordCost(p.cp, cd[k], p.discount, p.idleCoefficient))]
               ELSE IF Len(gk) > 0
               THEN [acc EXCEPT !.aggregations =
                        aggregateDatum(p.cp, @, cd[k], p.field, p.subfield, gk[1],
                                       p.discount, p.idleCoefficient)]
               ELSE acc)

\* costmodel.AggregateCostModel as one call (aggregations.go:101-160)
AggregateCostModel(prov, cd, fld, sub, keepSeries, disc, idle, shr) ==
    LET acc == RangeLoop(cd, DOMAIN cd,
                         [cp |-> prov, field |-> fld, subfield |-> sub, discount |-> disc,
                          idleCoefficient |-> idle, sr |-> shr],
                         [aggregations |-> EmptyMap, sharedResourceCost |-> 0])
    IN Totals(acc.aggregations, acc.sharedResourceCost, keepSeries)

\* part_000:389: the result computed with the idle coefficient idle
ComputedResult(rq, idle) ==
    AggregateCostModel(HandlerProvider, RangeData, rq.field, rq.subfield, rq.timeSeries,
                       ParseDiscount(HandlerConfig.Discount), idle, SharedResourceInfoOf(rq))

\* the idle coefficients a request can come to pass
IdleValues(rq) ==
    {IdleCoefficientOf(rq, totals).value : totals \in IdleInputs(rq)}

\* ComputedResult, tabulated over the requests that reach the computation
ResultOf ==
    [x \in {y \in Requests \X {0, 1, 2} :
              /\ ~MissingField(y[1]) /\ ~LabelCountMismatch(y[1])
              /\ y[2] \in IdleValues(y[1])} |->
        ComputedResult(x[1], x[2])]

\* a result holds a cost that is not a finite number
NonFinite(result) ==
    \E key \in DOMAIN result :
        \E c \in {result[key].CPUCost, result[key].RAMCost, result[key].GPUCost,
                  result[key].PVCost, result[key].SharedCost, result[key].TotalCost} :
            c \in {PosInf, NaN}

\* wrapData(nil, err) and wrapDataWithMessage(result, nil, message).  Written
\* tells whether json.Marshal gave a body: it returns an error, and the
\* handler then writes an empty body, when a float64 of Data is +Inf or NaN
ErrorEnvelope(message) ==
    [Status |-> "error", Data |-> Nil, Message |-> message, Written |-> TRUE]
SuccessEnvelope(result, message) ==
    [Status |-> "success", Data |-> <<result>>, Message |-> message,
     Written |-> ~NonFinite(result)]

\* a fresh cache, no request served
HandlerInit ==
    /\ cache = EmptyMap
    /\ request = NoRequest
    /\ responses = <<>>
    /\ calls = <<>>
    /\ idleCall = Nil
    /\ passedIdle = Nil

HandlerIdle == HandlerInit

\* the calls up to the idle coefficient (part_000:343-367)
CallsToIdle(rq) ==
    <<"ComputeCostDataRange", "GetConfig">>
        \o (IF rq.allocateIdle = "true" THEN <<"ComputeIdleCoefficient">> ELSE <<>>)

\* the ComputeIdleCoefficient call of a request, as the history keeps it
IdleCallOf(rq, totals, idle) ==
    IF rq.allocateIdle = "true"
    THEN <<[totals |-> totals, value |-> idle.value, err |-> idle.err,
            panics |-> idle.panics]>>
    ELSE Nil

\* part_000:364-366: the error of ComputeIdleCoefficient is written; the
\* handler does not return
IdleErrorWritten(idle) ==
    IF idle.err THEN <<ErrorEnvelope("idle coefficient failed")>> ELSE <<>>

\* part_000:275-286: the request is refused before the cache is touched
RejectRequest(rq) ==
    /\ MissingField(rq)
    /\ request' = <<rq>>
    /\ responses' = <<ErrorEnvelope("missing parameter")>>
    /\ calls' = <<>>
    /\ idleCall' = Nil
    /\ passedIdle' = Nil
    /\ UNCHANGED cache
    /\ UNCHANGED otherThanHandler

\* part_000:324-334: the stored value is written and the handler returns
ServeCacheHit(rq) ==
    /\ ~MissingField(rq)
    /\ CacheHit(cache, rq)
    /\ request' = <<rq>>
    /\ responses' = <<SuccessEnvelope(cache[aggKey(rq)], "cache hit")>>
    /\ calls' = <<>>
    /\ idleCall' = Nil
    /\ passedIdle' = Nil
    /\ UNCHANGED cache
    /\ UNCHANGED otherThanHandler

\* part_000:343-347: ComputeCostDataRange fails
FetchFails(rq) ==
    /\ ~MissingField(rq)
    /\ ~CacheHit(cache, rq)
    /\ request' = <<rq>>
    /\ responses' = <<ErrorEnvelope("fetch failed")>>
    /\ calls' = <<"ComputeCostDataRange">>
    /\ idleCall' = Nil
    /\ passedIdle' = Nil
    /\ cache' = Flushed(cache, rq)
    /\ UNCHANGED otherThanHandler

\* part_000:349-358: GetConfig fails, or the Discount of the configuration
\* does not parse as a number
ConfigFails(rq) ==
    /\ ~MissingField(rq)
    /\ ~CacheHit(cache, rq)
    /\ request' = <<rq>>
    /\ \E message \in {"config failed", "discount does not parse"} :
          responses' = <<ErrorEnvelope(message)>>
    /\ calls' = <<"ComputeCostDataRange", "GetConfig">>
    /\ idleCall' = Nil
    /\ passedIdle' = Nil
    /\ cache' = Flushed(cache, rq)
    /\ UNCHANGED otherThanHandler

\* part_000:363 with aggregations.go:80: the index expression panics inside
\* ComputeIdleCoefficient; the handler writes nothing
IdlePanics(rq) ==
    /\ ~MissingField(rq)
    /\ ~CacheHit(cache, rq)
    /\ \E totals \in IdleInputs(rq) :
         LET idle == IdleCoefficientOf(rq, totals)
         IN /\ idle.panics
            /\ idleCall' = IdleCallOf(rq, totals, idle)
    /\ request' = <<rq>>
    /\ responses' = <<>>
    /\ calls' = CallsToIdle(rq)
    /\ passedIdle' = Nil
    /\ cache' = Flushed(cache, rq)
    /\ UNCHANGED otherThanHandler

\* part_000:375-381: one label value per label name, checked after the data,
\* the configuration and the idle coefficient have been obtained
RejectSharedLabels(rq) ==
    /\ ~MissingField(rq)
    /\ ~CacheHit(cache, rq)
    /\ LabelCountMismatch(rq)
    /\ \E totals \in IdleInputs(rq) :
         LET idle == IdleCoefficientOf(rq, totals)
         IN /\ ~idle.panics
            /\ idleCall' = IdleCallOf(rq, totals, idle)
            /\ responses' = IdleErrorWritten(idle)
                   \o <<ErrorEnvelope("Supply exacly one label value per label name")>>
    /\ request' = <<rq>>
    /\ calls' = CallsToIdle(rq)
    /\ passedIdle' = Nil
    /\ cache' = Flushed(cache, rq)
    /\ UNCHANGED otherThanHandler

\* part_000:343-392: the result is computed, stored under aggKey and written
ServeCacheMiss(rq) ==
    /\ ~MissingField(rq)
    /\ ~CacheHit(cache, rq)
    /\ ~LabelCountMismatch(rq)
    /\ \E totals \in IdleInputs(rq) :
         LET idle == IdleCoefficientOf(rq, totals)
             result == ResultOf[<<rq, idle.value>>]
         IN /\ ~idle.panics
            /\ idleCall' = IdleCallOf(rq, totals, idle)
            /\ passedIdle' = <<idle.value>>
            /\ responses' = IdleErrorWritten(idle) \o <<SuccessEnvelope(result, "cache miss")>>
            /\ cache' = (aggKey(rq) :> result) @@ Flushed(cache, rq)
    /\ request' = <<rq>>
    /\ calls' = CallsToIdle(rq) \o <<"AggregateCostModel", "Cache.Set">>
    /\ UNCHANGED otherThanHandler

\* the cache drops an entry whose expiration has passed
Expire(key) ==
    /\ key \in DOMAIN cache
    /\ cache' = [x \in DOMAIN cache \ {key} |-> cache[x]]
    /\ UNCHANGED <<request, responses, calls, idleCall, passedIdle>>
    /\ UNCHANGED otherThanHandler

NextHandler ==
    \/ \E rq \in Requests : RejectRequest(rq)
    \/ \E rq \in Requests : ServeCacheHit(rq)
    \/ \E rq \in Requests : FetchFails(rq)
    \/ \E rq \in Requests : ConfigFails(rq)
    \/ \E rq \in Requests : IdlePanics(rq)
    \/ \E rq \in Requests : RejectSharedLabels(rq)
    \/ \E rq \in Requests : ServeCacheMiss(rq)
    \/ \E key \in DOMAIN cache : Expire(key)

(***************************************************************************)
(* Concurrent requests: every request is served by its own goroutine; the  *)
(* goroutines share a.Cache, whose Flush, Get and Set are each atomic.     *)
(***************************************************************************)
Handlers == 1..MaxHandlers

\* the requests the goroutines serve: two that share a fingerprint, one of
\* them with clearCache, and one of another fingerprint
ConcurrentRequests ==
    {rq \in Requests :
        /\ ~MissingField(rq) /\ ~LabelCountMismatch(rq)
        /\ rq.allocateIdle = "" /\ ~rq.disableCache
        /\ rq.sharedLabelNames = <<>>
        /\ rq.clearCache <=> rq.sharedNamespaces # <<>>}

\* a goroutine that serves no request
Waiting == [pc |-> "idle", rq |-> Nil, result |-> Nil, response |-> Nil]

\* mutant: a Flush that leaves the entries in place
FlushNone(c) == c

\* Cache.Flush
FlushAll(c) == EmptyMap

\* part_000:331: found && !disableCache, on the cache as it is at the Get
Found(c, rq) ==
    /\ aggKey(rq) \in DOMAIN c
    /\ ~rq.disableCache

ConcInit ==
    /\ goroutines = [h \in Handlers |-> Waiting]
    /\ stored = {}

ConcIdle ==
    /\ goroutines = <<>>
    /\ stored = {}

\* part_000:246-320: a request arrives and passes the validation
Begin(h, rq) ==
    /\ goroutines[h].pc = "idle"
    /\ goroutines' = [goroutines EXCEPT
                        ![h] = [pc |-> IF rq.clearCache THEN "flush" ELSE "get",
                                rq |-> <<rq>>, result |-> Nil, response |-> Nil]]
    /\ UNCHANGED <<cache, stored>>
    /\ UNCHANGED otherThanConc

\* part_000:324-326
FlushStep(h) ==
    /\ goroutines[h].pc = "flush"
    /\ cache' = FlushAll(cache)
    /\ stored' = {}
    /\ goroutines' = [goroutines EXCEPT ![h].pc = "get"]
    /\ UNCHANGED otherThanConc

\* part_000:331-334: the Get finds an entry; it is written and the handler returns
GetHit(h) ==
    /\ goroutines[h].pc = "get"
    /\ Found(cache, goroutines[h].rq[1])
    /\ goroutines' = [goroutines EXCEPT
                        ![h].pc = "done",
                        ![h].response =
                            <<SuccessEnvelope(cache[aggKey(goroutines[h].rq[1])], "cache hit")>>]
    /\ UNCHANGED <<cache, stored>>
    /\ UNCHANGED otherThanConc

\* part_000:331: the Get finds nothing
GetMiss(h) ==
    /\ goroutines[h].pc = "get"
    /\ ~Found(cache, goroutines[h].rq[1])
    /\ goroutines' = [goroutines EXCEPT ![h].pc = "compute"]
    /\ UNCHANGED <<cache, stored>>
    /\ UNCHANGED otherThanConc

\* part_000:343-347: ComputeCostDataRange fails
ComputeFails(h) ==
    /\ goroutines[h].pc = "compute"
    /\ goroutines' = [goroutines EXCEPT
                        ![h].pc = "done",
                        ![h].response = <<ErrorEnvelope("fetch failed")>>]
    /\ UNCHANGED <<cache, stored>>
    /\ UNCHANGED otherThanConc

\* part_000:343-389: the goroutine computes its result
Compute(h) ==
    /\ goroutines[h].pc = "compute"
    /\ goroutines' = [goroutines EXCEPT
                        ![h].pc = "set",
                        ![h].result = <<ResultOf[<<goroutines[h].rq[1], 1>>]>>]
    /\ UNCHANGED <<cache, stored>>
    /\ UNCHANGED otherThanConc

\* part_000:390-392: the result is stored under aggKey and written
SetStep(h) ==
    /\ goroutines[h].pc = "set"
    /\ cache' = (aggKey(goroutines[h].rq[1]) :> goroutines[h].result[1]) @@ cache
    /\ stored' = stored \cup {<<aggKey(goroutines[h].rq[1]), goroutines[h].result[1]>>}
    /\ goroutines' = [goroutines EXCEPT
                        ![h].pc = "done",
                        ![h].response =
                            <<SuccessEnvelope(goroutines[h].result[1], "cache miss")>>]
    /\ UNCHANGED otherThanConc

\* the handler has returned; the goroutine serves the next request
Return(h) ==
    /\ goroutines[h].pc = "done"
    /\ goroutines' = [goroutines EXCEPT ![h] = Waiting]
    /\ UNCHANGED <<cache, stored>>
    /\ UNCHANGED otherThanConc

\* the cache drops an entry whose expiration has passed
ExpireEntry(key) ==
    /\ key \in DOMAIN cache
    /\ cache' = [x \in DOMAIN cache \ {key} |-> cache[x]]
    /\ UNCHANGED <<goroutines, stored>>
    /\ UNCHANGED otherThanConc

\* the next step of goroutine h once it serves a request
StepOf(h) ==
    \/ FlushStep(h)
    \/ GetHit(h)
    \/ GetMiss(h)
    \/ ComputeFails(h)
    \/ Compute(h)
    \/ SetStep(h)
    \/ Return(h)

NextConc ==
    \/ \E h \in Handlers, rq \in ConcurrentRequests : Begin(h, rq)
    \/ \E h \in Handlers : FlushStep(h)
    \/ \E h \in Handlers : GetHit(h)
    \/ \E h \in Handlers : GetMiss(h)
    \/ \E h \in Handlers : ComputeFails(h)
    \/ \E h \in Handlers : Compute(h)
    \/ \E h \in Handlers : SetStep(h)
    \/ \E h \in Handlers : Return(h)
    \/ \E key \in DOMAIN cache : ExpireEntry(key)

(***************************************************************************)
(* The specifications: each runs one component, the others stay idle.      *)
(***************************************************************************)
InitVec == VecInit /\ AggIdle /\ ReconIdle /\ HandlerIdle /\ ConcIdle

SpecVec == InitVec /\ [][NextVec]_vars

InitAgg == AggInit /\ VecIdle /\ ReconIdle /\ HandlerIdle /\ ConcIdle

SpecAgg == InitAgg /\ [][NextAgg]_vars

Init == ReconInit /\ VecIdle /\ AggIdle /\ HandlerIdle /\ ConcIdle

Spec == Init /\ [][Next]_vars

InitHandler == HandlerInit /\ VecIdle /\ AggIdle /\ ReconIdle /\ ConcIdle

SpecHandler == InitHandler /\ [][NextHandler]_vars

InitConc == ConcInit /\ HandlerIdle /\ VecIdle /\ AggIdle /\ ReconIdle

SpecConc == InitConc /\ [][NextConc]_vars

(***************************************************************************)
(* Claims about addVectors.                                                *)
(***************************************************************************)
\* the grid points of the samples of a Series, the point 0 left aside
GridPoints(vs) == {Round10(vs[i].Timestamp) : i \in 1..Len(vs)} \ {0}

\* the value a Series holds at grid point t, when exactly one sample snaps to it
ValueAt(vs, t) ==
    LET at == {i \in 1..Len(vs) : vs[i].Timestamp # 0 /\ Round10(vs[i].Timestamp) = t}
    IN IF at = {} THEN 0 ELSE vs[CHOOSE i \in at : TRUE].Value

\* C2: addVectors(a, b) with both inputs non-empty returns exactly one point
\* per distinct snapped timestamp of a or b, in ascending order, holding the
\* sum of the two values at that timestamp (the single value when only one
\* input has it), also when two samples of one Series snap to the same point.
C2_OnePointPerTimestamp ==
    (vpc = "returned" /\ Len(a) > 0 /\ Len(b) > 0) =>
        /\ \A i \in 1..(Len(out) - 1) : out[i].Timestamp < out[i+1].Timestamp
        /\ {out[i].Timestamp : i \in 1..Len(out)} \ {0} = GridPoints(a) \cup GridPoints(b)
        /\ \A i \in 1..Len(out) :
              out[i].Timestamp # 0 =>
                  out[i].Value = ValueAt(a, out[i].Timestamp) + ValueAt(b, out[i].Timestamp)

\* C3: addVectors(a, b) and addVectors(b, a) return the same sequence of
\* (timestamp, value) points, for any two Series.
C3_MergeCommutes ==
    vpc = "returned" => out = addVectors(b, a)

\* C4: the Series addVectors returns holds no point whose timestamp is 0,
\* whether or not one input is empty and whether the timestamp was 0 before
\* or only after snapping.
C4_NoZeroTimestamp ==
    vpc \in {"returned", "swapped"} =>
        \A i \in 1..Len(out) : out[i].Timestamp # 0

(***************************************************************************)
(* Claims about AggregateCostModel.                                        *)
(***************************************************************************)
\* sum of f[x] over the finite set S
RECURSIVE SumOver(_, _)
SumOver(S, f) ==
    IF S = {} THEN 0
    ELSE LET x == CHOOSE y \in S : TRUE IN f[x] + SumOver(S \ {x}, f)

\* the shared predicate as the claim words it: the namespace is in the
\* configured set, which always holds kube-system, or a label of the record
\* equals a configured (name, value) pair
MatchesSharedInfo(k) ==
    /\ ~IsNil(sr)
    /\ Deref(sr).ShareResources
    /\ \/ costData[k].Namespace = "kube-system"
       \/ costData[k].Namespace \in Deref(sr).SharedNamespace
       \/ \E n \in DOMAIN Deref(sr).LabelSelectors \cap DOMAIN costData[k].Labels :
             costData[k].Labels[n] = Deref(sr).LabelSelectors[n]

\* the group key of a record as the claim words it: <<key>> or <<>>
ClaimedKey(k) ==
    LET d == costData[k]
    IN CASE field = "cluster"    -> <<d.ClusterID>>
         [] field = "namespace"  -> <<d.Namespace>>
         [] field = "service"    -> IF d.Services # <<>> THEN <<Head(d.Services)>> ELSE <<>>
         [] field = "deployment" -> IF d.Deployments # <<>> THEN <<Head(d.Deployments)>> ELSE <<>>
         [] field = "label"      -> IF subfield \in DOMAIN d.Labels
                                    THEN <<d.Labels[subfield]>> ELSE <<>>
         [] OTHER                -> <<>>

\* the records of the input that match the shared predicate of the call
SharedKeys == {k \in DOMAIN costData : MatchesSharedInfo(k)}

\* the records that do not, and for which the grouping resolves a key
GroupedKeys == {k \in DOMAIN costData \ SharedKeys : ClaimedKey(k) # <<>>}

\* the cost getPriceVectors gives each record under the parameters of the call
CostOfRecord ==
    [k \in DOMAIN costData |->
        IF IsNil(costData[k].NodeData) THEN 0
        ELSE RecordCost(cp, costData[k], discount, idleCoefficient)]

TotalCostOfGroup == [key \in DOMAIN aggregations |-> aggregations[key].TotalCost]

\* C5: the TotalCost of the returned groups adds up to the per-record cost
\* (CPU + RAM + GPU + PV from getPriceVectors) of the records that are not
\* shared, plus the shared pool total.  Stated for the calls the claim is
\* about at its most favourable reading: every record that is not shared
\* resolves a group key, and some group exists to carry the pool.
C5_Conservation ==
    (/\ apc = "done"
     /\ DOMAIN aggregations # {}
     /\ GroupedKeys = DOMAIN costData \ SharedKeys) =>
        SumOver(DOMAIN aggregations, TotalCostOfGroup)
            = SumOver(GroupedKeys, CostOfRecord) + SumOver(SharedKeys, CostOfRecord)

\* C6: with N >= 1 returned groups and shared pool total S every group has
\* SharedCost = S/N; with no group the returned map is empty and the call
\* returns without dividing S by zero.
C6_SharedPoolEvenSplit ==
    apc = "done" =>
        /\ \A key \in DOMAIN aggregations :
              aggregations[key].SharedCost * Cardinality(DOMAIN aggregations)
                  = SumOver(SharedKeys, CostOfRecord)
        /\ GroupedKeys = {} => aggregations = <<>>

\* C6 witness: a call returned at least two groups that split a non-zero pool
C6_Witness ==
    /\ apc = "done"
    /\ Cardinality(DOMAIN aggregations) >= 2
    /\ SumOver(SharedKeys, CostOfRecord) > 0
    /\ \A key \in DOMAIN aggregations : aggregations[key].SharedCost > 0

\* C7: visiting a record that matches the shared predicate adds the record's
\* full cost to the shared pool and leaves every group as it was: no group
\* key is created and no group's series or allocation series changes.
C7_SharedRecordsJoinNoGroup ==
    [][\A k \in pending \ pending' :
          MatchesSharedInfo(k) =>
              /\ aggregations' = aggregations
              /\ sharedResourceCost' = sharedResourceCost + CostOfRecord[k]]_vars

\* C7 witness: a record shared through a label pair (not through its
\* namespace) has been visited, its cost is in the pool, and a group exists
C7_Witness ==
    /\ apc = "loop"
    /\ sharedResourceCost > 0
    /\ DOMAIN aggregations # {}
    /\ \E k \in DOMAIN costData \ pending :
          /\ MatchesSharedInfo(k)
          /\ costData[k].Namespace \notin Deref(sr).SharedNamespace

\* C8: the keys of the returned map are exactly the keys resolved from the
\* records that are not shared; a record that resolves no key (every record,
\* when field is none of the five) joins no group and raises no error.
C8_GroupKeyResolution ==
    /\ apc = "done" =>
          DOMAIN aggregations =
              {ClaimedKey(k)[1] : k \in GroupedKeys}
    /\ apc = "panic" =>
          \E k \in DOMAIN costData : k \in SharedKeys \/ ClaimedKey(k) # <<>>
    /\ (apc = "done" /\ field \notin {"cluster", "namespace", "service", "deployment", "label"})
          => aggregations = <<>>

\* C8 witness: a call returned groups although one of its records, not
\* shared, resolved no key
C8_Witness ==
    /\ apc = "done"
    /\ DOMAIN aggregations # {}
    /\ \E k \in DOMAIN costData \ SharedKeys : ClaimedKey(k) = <<>>

\* C9: AggregateCostModel completes normally on an input holding a record
\* whose NodeData is nil; the record adds no cost and stays in the input.
C9_NilNodeDataSkipped ==
    (\E k \in DOMAIN costData : IsNil(costData[k].NodeData)) =>
        /\ apc # "panic"
        /\ (pending = {} /\ apc = "loop") => ENABLED ReturnAggregations

\* two results agree on their group keys and, group by group, on the Cluster
\* field and on every scalar cost
SameResult(x, y) ==
    /\ DOMAIN x = DOMAIN y
    /\ \A key \in DOMAIN x :
          /\ x[key].Cluster = y[key].Cluster
          /\ x[key].CPUCost = y[key].CPUCost
          /\ x[key].RAMCost = y[key].RAMCost
          /\ x[key].GPUCost = y[key].GPUCost
          /\ x[key].PVCost = y[key].PVCost
          /\ x[key].SharedCost = y[key].SharedCost
          /\ x[key].TotalCost = y[key].TotalCost

\* the result of a call that visits the records cd in the order of their keys
InKeyOrder(cd) ==
    AggregateCostModel(cp, cd, field, subfield, timeSeries, discount, idleCoefficient, sr)

\* C18: whatever the order in which the call visited the records, its result
\* is the one the visit in key order gives on the same records, and a second
\* call on the records as the first call left them returns that result again.
C18_OrderIndependent ==
    apc = "done" =>
        /\ SameResult(aggregations, InKeyOrder(costData0))
        /\ SameResult(InKeyOrder(costData), aggregations)

(***************************************************************************)
(* Claims about the reconciler.                                            *)
(***************************************************************************)
\* the gauges whose series are labelled by the tracking key of each kind
KeyedGauges ==
    [node      |-> {"CPUPriceRecorder", "RAMPriceRecorder", "GPUPriceRecorder",
                    "NodeTotalPriceRecorder"},
     container |-> {"RAMAllocationRecorder", "CPUAllocationRecorder",
                    "GPUAllocationRecorder"},
     pv        |-> {"PersistentVolumePriceRecorder"},
     pvc       |-> {"PVAllocationRecorder"}]

\* the allocation Series each container gauge takes its value from
AllocationOf(costs) ==
    [RAMAllocationRecorder |-> costs.RAMAllocation,
     CPUAllocationRecorder |-> costs.CPUAllocation,
     GPUAllocationRecorder |-> costs.GPUReq]

\* the gauges the data of this cycle hold a value for, for an entity observed:
\* all of its kind, but for a container only those with a sample
ExportedGauges(kind, lvs) ==
    IF kind = "container"
    THEN {g \in KeyedGauges[kind] :
            \E k \in WithNodeData(data) :
               /\ lvs = <<data[k].Namespace, data[k].PodName, data[k].Name,
                          data[k].NodeName, data[k].NodeName>>
               /\ Len(AllocationOf(data[k])[g]) > 0}
    ELSE KeyedGauges[kind]

\* C1: after every sweep, each entity observed in the data pass of the cycle
\* has its series, and each entity observed in the pass of the cycle before
\* but not in this one has none: eviction in the sweep of the first cycle the
\* entity is missing from, for nodes, containers of Running pods, persistent
\* volumes and volume claims alike.
C1_OneCycleEviction ==
    rpc = "sleep" =>
        LET now == Observed(podStatus, data, pvs)
        IN \A kind \in DOMAIN KeyedGauges :
              /\ \A lvs \in now[kind] :
                    \A g \in ExportedGauges(kind, lvs) : lvs \in DOMAIN gauges[g]
              /\ \A lvs \in observedBefore[kind] \ now[kind] :
                    \A g \in KeyedGauges[kind] : lvs \notin DOMAIN gauges[g]

\* C1 witness: a sweep has ended a cycle in which an entity of every kind,
\* observed the cycle before, was missing
C1_Witness ==
    /\ rpc = "sleep"
    /\ \A kind \in DOMAIN KeyedGauges :
          observedBefore[kind] \ Observed(podStatus, data, pvs)[kind] # {}

\* the tracking maps by kind
Tracking ==
    [node |-> nodeSeen, container |-> containerSeen, pv |-> pvSeen, pvc |-> pvcSeen]

\* C16: a cycle whose cost data fetch failed runs on an empty data set: its
\* pass has nothing to visit and its sweep can run; after that sweep every key
\* of the four maps has been treated as absent (flag false, no series left in
\* the gauges labelled by it) and the next cycle can begin.
C16_FetchFailureDegrades ==
    fetchFailed =>
        /\ rpc \in {"pass", "sleep"}
        /\ data = EmptyMap
        /\ rpc = "pass" => unvisited = {} /\ ENABLED Sweep
        /\ rpc = "sleep" =>
              /\ \A kind \in DOMAIN KeyedGauges :
                    /\ \A key \in DOMAIN Tracking[kind] : ~Tracking[kind][key]
                    /\ \A g \in KeyedGauges[kind] : DOMAIN gauges[g] = {}
              /\ ENABLED StartCycle

\* C16 witness: the sweep of a cycle whose fetch failed has run, the cycle
\* before having observed an entity of every kind
C16_Witness ==
    /\ fetchFailed
    /\ rpc = "sleep"
    /\ \A kind \in DOMAIN KeyedGauges : observedBefore[kind] # {}

\* C17: the goroutine of the reconciler never panics, whatever optional
\* data a record with node data lacks.
C17_NeverPanics ==
    rpc # "panic"

\* C19: after a sweep each tracking map holds only keys of entities the
\* data pass of that cycle observed.
C19_SweepRemovesEntry ==
    rpc = "sleep" =>
        \A kind \in DOMAIN KeyedGauges :
            {getLabelStringsFromKey(key) : key \in DOMAIN Tracking[kind]}
                \subseteq Observed(podStatus, data, pvs)[kind]

\* the containers that appear in the records the pass visits
ContainersInData ==
    {<<data[k].Namespace, data[k].PodName, data[k].Name, data[k].NodeName, data[k].NodeName>> :
        k \in WithNodeData(data)}

\* C20: when the data pass has visited every record, the flag of every
\* node, container, persistent volume and volume claim that appeared in the
\* data of the cycle is true.
C20_DataPassSetsTrue ==
    (rpc = "pass" /\ unvisited = {}) =>
        LET seenNow == Observed(podStatus, data, pvs)
            appeared == [seenNow EXCEPT !.container = ContainersInData]
        IN \A kind \in DOMAIN KeyedGauges :
              \A lvs \in appeared[kind] :
                 /\ getKeyFromLabelStrings(lvs) \in DOMAIN Tracking[kind]
                 /\ Tracking[kind][getKeyFromLabelStrings(lvs)]

\* the series of a gauge whose label values are those of a key of kind
SeriesOf(gs, g, key) ==
    IF getLabelStringsFromKey(key) \in DOMAIN gs[g]
    THEN <<gs[g][getLabelStringsFromKey(key)]>>
    ELSE Nil

\* C21: after every sweep, and until the next data pass visits its first
\* record, every flag of the four tracking maps is false; the sweep keeps a
\* key whose flag was true, resets its flag to false and leaves its series
\* as they were; and the series that are left after a sweep are those of
\* entities the cycle observed.
C21_FlagsFalseAfterSweep ==
    /\ []((rpc = "sleep" \/ (rpc = "pass" /\ unvisited = DOMAIN data)) =>
            \A kind \in DOMAIN KeyedGauges :
                \A key \in DOMAIN Tracking[kind] : ~Tracking[kind][key])
    /\ [](rpc = "sleep" =>
            \A kind \in DOMAIN KeyedGauges :
                \A g \in KeyedGauges[kind] :
                    DOMAIN gauges[g] \subseteq Observed(podStatus, data, pvs)[kind])
    /\ [][(rpc = "pass" /\ rpc' = "sleep") =>
            /\ \A key \in DOMAIN nodeSeen : nodeSeen[key] =>
                  /\ key \in DOMAIN nodeSeen' /\ ~nodeSeen'[key]
                  /\ \A g \in KeyedGauges.node : SeriesOf(gauges', g, key) = SeriesOf(gauges, g, key)
            /\ \A key \in DOMAIN containerSeen : containerSeen[key] =>
                  /\ key \in DOMAIN containerSeen' /\ ~containerSeen'[key]
                  /\ \A g \in KeyedGauges.container : SeriesOf(gauges', g, key) = SeriesOf(gauges, g, key)
            /\ \A key \in DOMAIN pvSeen : pvSeen[key] =>
                  /\ key \in DOMAIN pvSeen' /\ ~pvSeen'[key]
                  /\ \A g \in KeyedGauges.pv : SeriesOf(gauges', g, key) = SeriesOf(gauges, g, key)
            /\ \A key \in DOMAIN pvcSeen : pvcSeen[key] =>
                  /\ key \in DOMAIN pvcSeen' /\ ~pvcSeen'[key]
                  /\ \A g \in KeyedGauges.pvc : SeriesOf(gauges', g, key) = SeriesOf(gauges, g, key)
       ]_vars

\* C21 witness: a sweep has ended a cycle that observed an entity of every
\* kind: each is kept, its series exported and its flag false
C21_Witness ==
    /\ rpc = "sleep"
    /\ \A kind \in DOMAIN KeyedGauges :
          \E lvs \in Observed(podStatus, data, pvs)[kind] :
              /\ getKeyFromLabelStrings(lvs) \in DOMAIN Tracking[kind]
              /\ ~Tracking[kind][getKeyFromLabelStrings(lvs)]
              /\ \E g \in KeyedGauges[kind] : lvs \in DOMAIN gauges[g]

\* the label values of the uptime series of the container a key stands for
UptimeLabels(key) == SubSeq(getLabelStringsFromKey(key), 1, 3)

\* C22: a sweep leaves no series of an entity whose key it finds with flag
\* false: none in the gauges labelled by the key and, for a container, none
\* in the container uptime gauge.
C22_SweepDeletesEverySeries ==
    [][(rpc = "pass" /\ rpc' = "sleep") =>
          /\ \A kind \in DOMAIN KeyedGauges :
                \A key \in Unseen(Tracking[kind]) :
                    \A g \in KeyedGauges[kind] :
                        getLabelStringsFromKey(key) \notin DOMAIN gauges'[g]
          /\ \A key \in Unseen(containerSeen) :
                UptimeLabels(key) \notin DOMAIN gauges'.ContainerUptimeRecorder
      ]_vars

\* C23: a cycle that has come to its sleep has refreshed the global and the
\* uptime gauges, whatever its cost data held: the three network egress
\* gauges hold what NetworkPricing returned to the cycle, when it returned
\* prices, and the cycle has written the container uptime gauges from what
\* ComputeUptimes returns.
C23_RefreshedEveryCycle ==
    rpc = "sleep" =>
        /\ ~refreshed.network[1].err => networkGauges = refreshed.network[1].costs
        /\ refreshed.uptimes > 0

(***************************************************************************)
(* Claims about the request handler.                                       *)
(***************************************************************************)
\* C10: a response served from the cache carries the result the parameters
\* of its own request compute from the data: no request is answered with a
\* result computed under other result-affecting parameters.
C10_CacheHitMatchesRequest ==
    \A i \in 1..Len(responses) :
        responses[i].Message = "cache hit" =>
            /\ ~LabelCountMismatch(request[1])
            /\ \E idle \in IdleValues(request[1]) :
                  responses[i].Data = <<ResultOf[<<request[1], idle>>]>>

\* the totals that report a cluster-wide total cost that is zero or absent
ZeroOrAbsent(totals) ==
    /\ ~totals.err
    /\ \/ Len(totals.TotalCost) = 0
       \/ totals.TotalCost[1][2] \in {"", "0"}

\* C13: a ComputeIdleCoefficient call that finds the cluster-wide total cost
\* absent or zero returns 0 and no error.
C13_ZeroTotalReturnsZero ==
    (idleCall # Nil /\ ZeroOrAbsent(idleCall[1].totals)) =>
        /\ ~idleCall[1].panics
        /\ ~idleCall[1].err
        /\ idleCall[1].value = 0

\* C14: the idle coefficient the handler passes to AggregateCostModel is
\* greater than zero.
C14_IdleCoefficientPositive ==
    passedIdle # Nil => passedIdle[1] > 0

\* C15: a request refused for its shared labels is refused before the handler
\* has called anything: no cost data, no configuration, no idle coefficient.
C15_LabelMismatchBeforeComputation ==
    (request # NoRequest /\ ~MissingField(request[1]) /\ LabelCountMismatch(request[1])
        /\ \A i \in 1..Len(responses) : responses[i].Message # "cache hit")
      => /\ calls = <<>>
         /\ Len(responses) = 1
         /\ responses[1].Message = "Supply exacly one label value per label name"

\* C24: a request that was answered with an error has that error as its only
\* response, and the handler has neither aggregated nor stored a result for it.
C24_ErrorIsOnlyResponse ==
    (\E i \in 1..Len(responses) : responses[i].Status = "error") =>
        /\ Len(responses) = 1
        /\ \A j \in 1..Len(calls) : calls[j] \notin {"AggregateCostModel", "Cache.Set"}

(***************************************************************************)
(* Claims about the cache under concurrent requests.                       *)
(***************************************************************************)
\* C11: a request with clearCache=true that passed the validation is never
\* answered from the cache: its Flush comes before its Get, so its Get finds
\* nothing and the request is answered with what it computes itself.
C11_ClearCacheNeverHits ==
    \A h \in DOMAIN goroutines :
        (goroutines[h].pc = "done" /\ goroutines[h].rq[1].clearCache) =>
            goroutines[h].response[1].Message # "cache hit"

\* C12: in every interleaving, (1) each goroutine that serves a request can
\* always take its next step whatever the others do, (2) a Get that hits
\* returns a value that a completed Set stored under that key after the last
\* Flush, and (3) a goroutine that missed Sets and returns the result of its
\* own request, whether or not another goroutine stored one meanwhile.
C12_CacheUnderConcurrency ==
    /\ [](\A h \in DOMAIN goroutines :
              goroutines[h].pc # "idle" => ENABLED StepOf(h))
    /\ [][
        /\ \A h \in DOMAIN goroutines :
              (goroutines[h].pc = "get" /\ goroutines'[h].pc = "done") =>
                  \E v \in {p[2] : p \in {q \in stored : q[1] = aggKey(goroutines[h].rq[1])}} :
                      goroutines'[h].response[1].Data = <<v>>
        /\ \A h \in DOMAIN goroutines :
              (goroutines[h].pc = "set" /\ goroutines'[h].pc = "done") =>
                  /\ cache'[aggKey(goroutines[h].rq[1])] = ResultOf[<<goroutines[h].rq[1], 1>>]
                  /\ goroutines'[h].response[1].Data = <<ResultOf[<<goroutines[h].rq[1], 1>>]>>
      ]_vars

\* C12 witness: two goroutines missed on the same fingerprint and each has
\* computed a result that it is about to Set
C12_Witness ==
    \E g, h \in DOMAIN goroutines :
        /\ g # h
        /\ goroutines[g].pc = "set"
        /\ goroutines[h].pc = "set"
        /\ aggKey(goroutines[g].rq[1]) = aggKey(goroutines[h].rq[1])

====
